---- MODULE Spec2Model ----
(***************************************************************************)
(* A model of the daily campaign alert scripts email_send.py and           *)
(* slack_post.py: the presenters build_html and build_message, the         *)
(* threshold parsers parse_int_env and parse_fraction_env, and the run of  *)
(* each script (configuration check, fetch_rows, render, publish).         *)
(*                                                                         *)
(* Client names are modelled by integers: NoName is Python's None (a NULL  *)
(* client_name), EmptyName is the empty string "", and 1..MaxName are      *)
(* non-empty names in their lexical order.  A Decimal ratio is modelled by *)
(* the exact fraction <<numerator, denominator>> with denominator > 0      *)
(* (the 28-digit rounding of Decimal division is not modelled).            *)
(***************************************************************************)
EXTENDS Integers, Sequences, FiniteSets, TLC

\* ------------------------------ bounds ---------------------------------
MaxRows == 2
MaxName == 2
MaxMetric == 2
MaxPositives == 1
MaxSent == 1
MaxRawLen == 3
MaxDate == 2

\* The default of LOW_LEADS_THRESHOLD, parse_int_env's second argument.
DefaultLowLeads == 250
\* The default of LOW_REPLY_COUNT_THRESHOLD.
DefaultLowReplyCount == 5

NoName == -1
EmptyName == 0

VARIABLES
    rows,          \* the list of dicts returned by fetch_rows
    thresholds,    \* the module-level thresholds of both scripts
    emailOut,      \* what build_html(rows) returned, or NotCalled
    chatOut,       \* what main's guard + build_message returned, or NotCalled
    raw,           \* the raw environment string a threshold parser reads
    intEmail,      \* result of email_send.parse_int_env(raw), or NotCalled
    intSlack,      \* result of slack_post.parse_int_env(raw), or NotCalled
    fracSlack,     \* result of slack_post.parse_fraction_env(raw), or NotCalled
    script,        \* which script runs: "email" (email_send.py) or "chat"
    env,           \* the environment the run was started with
    pc,            \* where the run is
    dbConn,        \* the psycopg connection: "none", "open" or "closed"
    starttlsSession, \* the smtplib.SMTP session of the first attempt
    sslSession,    \* the smtplib.SMTP_SSL session of the fallback
    events,        \* what the run did so far, in order
    ist_yday       \* the business date the query computes for this run

presenterVars == <<rows, thresholds, emailOut, chatOut>>
parserVars == <<raw, intEmail, intSlack, fracSlack>>
runVars == <<script, env, pc, dbConn, starttlsSession, sslSession, events>>
dateVars == <<ist_yday>>
vars == <<presenterVars, parserVars, runVars, dateVars>>

ClientNames == {NoName} \cup (EmptyName..MaxName)

Row == [client_name : ClientNames,
        sent : 0..MaxSent,
        leads : 0..MaxMetric,
        replies : 0..MaxMetric,
        positives : 0..MaxPositives]

RowLists == UNION {[1..n -> Row] : n \in 0..MaxRows}

\* LOW_LEADS_THRESHOLD, LOW_REPLY_COUNT_THRESHOLD (email) and
\* LOW_REPLY_RATE_THRESHOLD (chat, a fraction) as the parsers left them.
ThresholdChoices ==
    { [LOW_LEADS_THRESHOLD |-> 1, LOW_REPLY_COUNT_THRESHOLD |-> 0,
       LOW_REPLY_RATE_THRESHOLD |-> <<1, 2>>],
      [LOW_LEADS_THRESHOLD |-> 2, LOW_REPLY_COUNT_THRESHOLD |-> 1,
       LOW_REPLY_RATE_THRESHOLD |-> <<1, 1>>] }

NotCalled == [status |-> "not_called"]

\* ------------------------- Python helpers -------------------------------
\* Truth value of r["client_name"]: None and "" are falsy.
Truthy(name) == name # NoName /\ name # EmptyName

RECURSIVE sumNamedOnly(_, _)
\* sum restricted to the rows that have a client name.
sumNamedOnly(rs, field) ==
    IF rs = <<>> THEN 0
    ELSE sumNamedOnly(SubSeq(rs, 1, Len(rs) - 1), field)
         + (IF Truthy(rs[Len(rs)].client_name) THEN rs[Len(rs)][field] ELSE 0)

RECURSIVE sum(_, _)
\* sum(r[field] for r in rows): a left fold starting from 0.
sum(rs, field) ==
    IF rs = <<>> THEN 0
    ELSE sum(SubSeq(rs, 1, Len(rs) - 1), field) + rs[Len(rs)][field]

RECURSIVE Comprehension(_, _)
\* [item(r) for r in rows if keep(r)] with the items and the filter given
\* as functions over the index set of rs.
Comprehension(items, keep) ==
    IF items = <<>> THEN <<>>
    ELSE LET n == Len(items)
             front == Comprehension(SubSeq(items, 1, n - 1), SubSeq(keep, 1, n - 1))
         IN IF keep[n] THEN Append(front, items[n]) ELSE front

\* Decimal comparison and equality on exact fractions.
DecLess(a, b) == a[1] * b[2] < b[1] * a[2]
DecEq(a, b) == a[1] * b[2] = b[1] * a[2]

\* safe_div(num, den)
safe_div(num, den) == IF den = 0 THEN <<0, 1>> ELSE <<num, den>>

\* (x * 100).quantize(Decimal('0.1')) in tenths of a percent, rounding
\* half to even (the decimal context's default rounding).
Quantize(x) ==
    LET n == x[1] * 1000
        q == n \div x[2]
        r == n - q * x[2]
    IN IF 2 * r < x[2] THEN q
       ELSE IF 2 * r > x[2] THEN q + 1
       ELSE IF q % 2 = 0 THEN q ELSE q + 1

d2pct(x) == Quantize(x)

\* ------------------------ threshold parsing -----------------------------
\* The characters of a raw environment string.  "NaN" and "Infinity" stand
\* for those spellings as a whole, "sup2" for a Unicode digit such as the
\* superscript two, "k" for any letter.
Chars == {"0", "5", "-", ".", "%", " ", "k", "NaN", "Infinity", "sup2"}

RawStrings == UNION {[1..n -> Chars] : n \in 0..MaxRawLen}

\* str.isdigit() of one character.
isdigit(ch) == ch \in {"0", "5", "sup2"}

\* The characters the decimal grammar accepts as digits.
IsAsciiDigit(ch) == ch \in {"0", "5"}

DigitValue(ch) == IF ch = "5" THEN 5 ELSE 0

RECURSIVE strip(_)
\* str.strip(): leading and trailing whitespace removed.
strip(s) ==
    IF s = <<>> THEN s
    ELSE IF s[1] = " " THEN strip(Tail(s))
    ELSE IF s[Len(s)] = " " THEN strip(SubSeq(s, 1, Len(s) - 1))
    ELSE s

RECURSIVE Pow10(_)
Pow10(n) == IF n = 0 THEN 1 ELSE 10 * Pow10(n - 1)

RECURSIVE IntOfDigits(_)
\* The integer written by a string of ASCII digits (0 for the empty string).
IntOfDigits(ds) ==
    IF ds = <<>> THEN 0
    ELSE 10 * IntOfDigits(SubSeq(ds, 1, Len(ds) - 1)) + DigitValue(ds[Len(ds)])

\* "".join(ch for ch in s if ch.isdigit())
DigitsOf(s) == Comprehension(s, [i \in 1..Len(s) |-> isdigit(s[i])])

\* A Decimal value: finite (-1)^neg * coef / 10^exp, an infinity or a NaN;
\* kind "invalid" is the InvalidOperation that Decimal(s) raises.
DecInvalid == [kind |-> "invalid", neg |-> FALSE, coef |-> 0, exp |-> 0]

\* Decimal(s): optional sign, then digits with at most one point and at least
\* one digit, or Infinity, or NaN with optional payload digits; surrounding
\* whitespace is ignored.
Decimal(str) ==
    LET t == strip(str)
        neg == t # <<>> /\ t[1] = "-"
        body == IF neg THEN Tail(t) ELSE t
        points == {i \in DOMAIN body : body[i] = "."}
        digits == Comprehension(body, [i \in 1..Len(body) |-> IsAsciiDigit(body[i])])
    IN IF body = <<>> THEN DecInvalid
       ELSE IF body = <<"Infinity">>
            THEN [kind |-> "inf", neg |-> neg, coef |-> 0, exp |-> 0]
       ELSE IF body[1] = "NaN"
            THEN IF \A i \in 2..Len(body) : IsAsciiDigit(body[i])
                 THEN [kind |-> "nan", neg |-> neg, coef |-> 0, exp |-> 0]
                 ELSE DecInvalid
       ELSE IF /\ \A i \in DOMAIN body : IsAsciiDigit(body[i]) \/ body[i] = "."
               /\ Cardinality(points) <= 1
               /\ digits # <<>>
            THEN [kind |-> "finite", neg |-> neg, coef |-> IntOfDigits(digits),
                  exp |-> IF points = {} THEN 0
                          ELSE Len(body) - (CHOOSE i \in points : TRUE)]
       ELSE DecInvalid

Returned(v) == [outcome |-> "returned", value |-> v, exc |-> "none"]
Raised(e) == [outcome |-> "raised", value |-> 0, exc |-> e]

\* int(d) for a Decimal d: truncation toward zero; NaN raises ValueError and
\* an infinity raises OverflowError.
IntOfDecimal(d) ==
    CASE d.kind = "finite" ->
            Returned((IF d.neg THEN -1 ELSE 1) * (d.coef \div Pow10(d.exp)))
      [] d.kind = "nan" -> Raised("ValueError")
      [] d.kind = "inf" -> Raised("OverflowError")
      [] d.kind = "invalid" -> Raised("InvalidOperation")

\* int(digits) for a string of isdigit() characters: a Unicode digit that is
\* not a decimal digit raises ValueError.
IntOfDigitString(ds) ==
    IF \A i \in DOMAIN ds : IsAsciiDigit(ds[i])
    THEN Returned(IntOfDigits(ds))
    ELSE Raised("ValueError")

\* parse_int_env of email_send.py
email_parse_int_env(rawValue, default_value) ==
    IF rawValue = <<>> \/ strip(rawValue) = <<>> THEN Returned(default_value)
    ELSE LET s == strip(rawValue)
             val == IntOfDecimal(Decimal(s))
         IN IF val.outcome = "returned"
            THEN Returned(IF val.value >= 0 THEN val.value ELSE default_value)
            ELSE IF val.exc \in {"InvalidOperation", "ValueError"}
                 THEN LET digits == DigitsOf(s)
                          v2 == IntOfDigitString(digits)
                      IN IF digits # <<>> /\ v2.outcome = "returned"
                         THEN Returned(IF v2.value >= 0 THEN v2.value
                                       ELSE default_value)
                         ELSE Returned(default_value)
                 ELSE val

\* parse_int_env of slack_post.py
slack_parse_int_env(rawValue, default_value) ==
    IF rawValue = <<>> \/ strip(rawValue) = <<>> THEN Returned(default_value)
    ELSE LET s == strip(rawValue)
             val == IntOfDecimal(Decimal(s))
         IN IF val.outcome = "returned" THEN val
            ELSE LET digits == DigitsOf(s)
                 IN IF digits # <<>> THEN IntOfDigitString(digits)
                    ELSE Returned(default_value)

\* val / Decimal(100)
DivBy100(d) == IF d.kind = "finite" THEN [d EXCEPT !.exp = d.exp + 2] ELSE d

\* val > 1 for a Decimal: comparing a NaN raises InvalidOperation.
GreaterThanOne(d) ==
    CASE d.kind = "finite" -> Returned(~d.neg /\ d.coef > Pow10(d.exp))
      [] d.kind = "inf" -> Returned(~d.neg)
      [] OTHER -> Raised("InvalidOperation")

\* parse_fraction_env of slack_post.py; default_fraction is given as the
\* Decimal it denotes.
parse_fraction_env(rawValue, default_fraction) ==
    IF rawValue = <<>> \/ strip(rawValue) = <<>> THEN Returned(default_fraction)
    ELSE LET s == strip(rawValue)
             had_percent == s[Len(s)] = "%"
             cleaned == IF had_percent THEN SubSeq(s, 1, Len(s) - 1) ELSE s
             val == Decimal(cleaned)
             gt == GreaterThanOne(val)
         IN IF val.kind = "invalid" THEN Returned(default_fraction)
            ELSE IF had_percent THEN Returned(DivBy100(val))
            ELSE IF gt.outcome = "raised" THEN Returned(default_fraction)
            ELSE IF gt.value THEN Returned(DivBy100(val))
            ELSE Returned(val)

\* Decimal("0.01"), the default of LOW_REPLY_RATE_THRESHOLD.
DefaultFraction == [kind |-> "finite", neg |-> FALSE, coef |-> 1, exp |-> 2]

\* ------------------------------ sorting ---------------------------------
\* The three sort keys of the scripts, over items <<name, ...>>:
\*   "metric_name": key=lambda x: (x[1], x[0])   (an integer, then the name)
\*   "rate_name":   key=lambda x: (x[3], x[0])   (a Decimal, then the name)
\*   "name":        key=lambda x: x[0]
PrimaryEq(kind, a, b) ==
    CASE kind = "metric_name" -> a[2] = b[2]
      [] kind = "rate_name" -> DecEq(a[4], b[4])
      [] kind = "name" -> FALSE

PrimaryLess(kind, a, b) ==
    CASE kind = "metric_name" -> a[2] < b[2]
      [] kind = "rate_name" -> DecLess(a[4], b[4])
      [] kind = "name" -> FALSE

\* KeyLess without the secondary key (the client name).
KeyLessPrimaryOnly(kind, a, b) ==
    IF kind = "name" THEN a[1] < b[1] ELSE PrimaryLess(kind, a, b)

\* key(a) < key(b), for keys Python can compare.
KeyLess(kind, a, b) ==
    IF kind = "name" THEN a[1] < b[1]
    ELSE PrimaryLess(kind, a, b) \/ (PrimaryEq(kind, a, b) /\ a[1] < b[1])

\* Python raises TypeError when the sort has to order None against a str (or,
\* for the name-only key, against anything): a tuple key reaches the name only
\* when the first components are equal and the names differ.
SortRaises(kind, items) ==
    \E i, j \in 1..Len(items) :
        /\ i # j
        /\ items[i][1] = NoName
        /\ IF kind = "name" THEN TRUE
           ELSE PrimaryEq(kind, items[i], items[j]) /\ items[j][1] # NoName

RECURSIVE InsertStable(_, _, _)
\* Place x after every element that is not greater than it (stable).
InsertStable(kind, sorted, x) ==
    IF sorted = <<>> THEN <<x>>
    ELSE IF KeyLess(kind, x, sorted[Len(sorted)])
         THEN Append(InsertStable(kind, SubSeq(sorted, 1, Len(sorted) - 1), x),
                     sorted[Len(sorted)])
         ELSE Append(sorted, x)

RECURSIVE SortedBy(_, _)
\* sorted(items, key=...) / list.sort(key=...): a stable sort.
SortedBy(kind, items) ==
    IF items = <<>> THEN <<>>
    ELSE InsertStable(kind, SortedBy(kind, SubSeq(items, 1, Len(items) - 1)),
                      items[Len(items)])

\* ---------------------------- email_send.py -----------------------------
\* render_list without its "if not items" branch.
render_listNoPlaceholder(items) == [tag |-> "ul", li |-> items]

\* render_list(items, label): the "None" paragraph or a <ul> of <li>.
render_list(items) ==
    IF items = <<>> THEN [tag |-> "p_none", li |-> <<>>]
    ELSE [tag |-> "ul", li |-> items]

\* leads_alerts with <= in place of the strict comparison.
leads_alertsInclusive(rs, thr) ==
    SortedBy("metric_name",
        Comprehension([i \in 1..Len(rs) |-> <<rs[i].client_name, rs[i].leads>>],
                      [i \in 1..Len(rs) |-> Truthy(rs[i].client_name)
                                            /\ rs[i].leads <= thr.LOW_LEADS_THRESHOLD]))

leads_alerts(rs, thr) ==
    SortedBy("metric_name",
        Comprehension([i \in 1..Len(rs) |-> <<rs[i].client_name, rs[i].leads>>],
                      [i \in 1..Len(rs) |-> Truthy(rs[i].client_name)
                                            /\ rs[i].leads < thr.LOW_LEADS_THRESHOLD]))

replies_alerts(rs, thr) ==
    SortedBy("metric_name",
        Comprehension([i \in 1..Len(rs) |-> <<rs[i].client_name, rs[i].replies>>],
                      [i \in 1..Len(rs) |-> Truthy(rs[i].client_name)
                                            /\ rs[i].replies <= thr.LOW_REPLY_COUNT_THRESHOLD]))

positives_alerts(rs) ==
    SortedBy("name",
        Comprehension([i \in 1..Len(rs) |-> <<rs[i].client_name, rs[i].positives>>],
                      [i \in 1..Len(rs) |-> Truthy(rs[i].client_name)
                                            /\ rs[i].positives = 0]))

\* reply_rate_pct of the email summary: positives / sent, "0.0%" when
\* total_sent is 0.  rate is the ratio that is formatted.
email_rate(total_pos, total_sent) ==
    IF total_sent # 0 THEN <<total_pos, total_sent>> ELSE <<0, 1>>

build_html(rs, thr) ==
    IF rs = <<>>
    THEN [status |-> "returned", kind |-> "no_data", sections |-> <<>>,
          totals |-> <<>>, rate |-> <<0, 1>>, rate_pct |-> 0]
    ELSE LET total_sent == sum(rs, "sent")
             total_leads == sum(rs, "leads")
             total_replies == sum(rs, "replies")
             total_pos == sum(rs, "positives")
             rate == email_rate(total_pos, total_sent)
         IN [status |-> "returned", kind |-> "digest",
             totals |-> [sent |-> total_sent, leads |-> total_leads,
                         replies |-> total_replies, positives |-> total_pos],
             rate |-> rate,
             rate_pct |-> Quantize(rate),
             sections |-> << render_list(leads_alerts(rs, thr)),
                             render_list(replies_alerts(rs, thr)),
                             render_list(positives_alerts(rs)) >>]

\* ---------------------------- slack_post.py -----------------------------
\* bulletify_low_leads / bulletify_low_reply / bulletify_zero_pos
bulletify(items) ==
    IF items = <<>> THEN [tag |-> "bullet_none", li |-> <<>>]
    ELSE [tag |-> "bullets", li |-> items]

\* The for-loop of build_message: the three appended lists, unsorted.
low_leads(rs, thr) ==
    Comprehension([i \in 1..Len(rs) |-> <<rs[i].client_name, rs[i].leads>>],
                  [i \in 1..Len(rs) |-> rs[i].leads < thr.LOW_LEADS_THRESHOLD])

low_reply(rs, thr) ==
    Comprehension([i \in 1..Len(rs) |->
                      <<rs[i].client_name, rs[i].replies, rs[i].leads,
                        safe_div(rs[i].replies, rs[i].leads)>>],
                  [i \in 1..Len(rs) |->
                      DecLess(safe_div(rs[i].replies, rs[i].leads),
                              thr.LOW_REPLY_RATE_THRESHOLD)])

zero_positive(rs) ==
    Comprehension([i \in 1..Len(rs) |-> <<rs[i].client_name, rs[i].positives>>],
                  [i \in 1..Len(rs) |-> rs[i].positives = 0])

build_message(rs, thr) ==
    IF rs = <<>>
    THEN [status |-> "returned", kind |-> "no_data",
          blocks |-> << [type |-> "header"], [type |-> "section"] >>,
          sections |-> <<>>, totals |-> <<>>, rate |-> <<0, 1>>, rate_pct |-> 0]
    ELSE LET total_leads == sum(rs, "leads")
             total_replies == sum(rs, "replies")
             total_positives == sum(rs, "positives")
             overall_reply_rate == safe_div(total_replies, total_leads)
             ll == low_leads(rs, thr)
             lr == low_reply(rs, thr)
             zp == zero_positive(rs)
         IN IF \/ SortRaises("metric_name", ll)
               \/ SortRaises("rate_name", lr)
               \/ SortRaises("name", zp)
            THEN [status |-> "TypeError", kind |-> "raised", blocks |-> <<>>,
                  sections |-> <<>>, totals |-> <<>>, rate |-> <<0, 1>>,
                  rate_pct |-> 0]
            ELSE [status |-> "returned", kind |-> "digest",
                  blocks |-> << [type |-> "header"], [type |-> "section"],
                                [type |-> "section"], [type |-> "section"],
                                [type |-> "section"] >>,
                  totals |-> [leads |-> total_leads, replies |-> total_replies,
                              positives |-> total_positives],
                  rate |-> overall_reply_rate,
                  rate_pct |-> d2pct(overall_reply_rate),
                  sections |-> << bulletify(SortedBy("metric_name", ll)),
                                  bulletify(SortedBy("rate_name", lr)),
                                  bulletify(SortedBy("name", zp)) >>]

\* main of slack_post.py, the guard before build_message:
\* rows = [r for r in rows if r["sent"] > 0]
ActiveRows(rs) ==
    Comprehension(rs, [i \in 1..Len(rs) |-> rs[i].sent > 0])

\* --------------------------- the presenters -----------------------------
ParsersIdle ==
    /\ raw = <<>>
    /\ intEmail = NotCalled
    /\ intSlack = NotCalled
    /\ fracSlack = NotCalled

\* The business date plays no part: any one date.
DateIdle == ist_yday = 1

RunIdle ==
    /\ script = "none"
    /\ env = <<>>
    /\ pc = "idle"
    /\ dbConn = "none"
    /\ starttlsSession = "none"
    /\ sslSession = "none"
    /\ events = <<>>

Init ==
    /\ rows \in RowLists
    /\ thresholds \in ThresholdChoices
    /\ emailOut = NotCalled
    /\ chatOut = NotCalled
    /\ ParsersIdle
    /\ RunIdle
    /\ DateIdle

\* email_send.py main: html, subject = build_html(rows)
BuildHtml ==
    /\ emailOut = NotCalled
    /\ emailOut' = build_html(rows, thresholds)
    /\ UNCHANGED <<rows, thresholds, chatOut, parserVars, dateVars, runVars>>

\* slack_post.py main: the sent > 0 guard, then blocks = build_message(rows)
BuildMessage ==
    /\ chatOut = NotCalled
    /\ chatOut' = build_message(ActiveRows(rows), thresholds)
    /\ UNCHANGED <<rows, thresholds, emailOut, parserVars, dateVars, runVars>>

Next == BuildHtml \/ BuildMessage

Spec == Init /\ [][Next]_vars

\* ------------------------ the threshold parsers -------------------------
PresentersIdle ==
    /\ rows = <<>>
    /\ thresholds \in {t \in ThresholdChoices : t.LOW_LEADS_THRESHOLD = 1}
    /\ emailOut = NotCalled
    /\ chatOut = NotCalled

InitEnv ==
    /\ raw \in RawStrings
    /\ intEmail = NotCalled
    /\ intSlack = NotCalled
    /\ fracSlack = NotCalled
    /\ PresentersIdle
    /\ RunIdle
    /\ DateIdle

\* email_send.py: LOW_LEADS_THRESHOLD = parse_int_env("LOW_LEADS_THRESHOLD", 250)
ParseIntEmail ==
    /\ intEmail = NotCalled
    /\ intEmail' = email_parse_int_env(raw, DefaultLowLeads)
    /\ UNCHANGED <<raw, intSlack, fracSlack, presenterVars, dateVars, runVars>>

\* slack_post.py: LOW_LEADS_THRESHOLD = parse_int_env("LOW_LEADS_THRESHOLD", 250)
ParseIntSlack ==
    /\ intSlack = NotCalled
    /\ intSlack' = slack_parse_int_env(raw, DefaultLowLeads)
    /\ UNCHANGED <<raw, intEmail, fracSlack, presenterVars, dateVars, runVars>>

\* slack_post.py: parse_fraction_env("LOW_REPLY_RATE_THRESHOLD", "0.01")
ParseFraction ==
    /\ fracSlack = NotCalled
    /\ fracSlack' = parse_fraction_env(raw, DefaultFraction)
    /\ UNCHANGED <<raw, intEmail, intSlack, presenterVars, dateVars, runVars>>

NextEnv == ParseIntEmail \/ ParseIntSlack \/ ParseFraction

SpecEnv == InitEnv /\ [][NextEnv]_vars

\* --------------------------- a run of a script --------------------------
\* The raw LOW_LEADS_THRESHOLD strings a run is started with; the other
\* thresholds are left unset and take their defaults.
RunRawChoices == { <<>>, <<"5">>, <<"-", "5">>, <<"Infinity">>, <<"sup2">> }

\* required: every required setting is present and non-empty;
\* port_ok: EMAIL_SMTP_PORT is unset or an integer literal.
Envs == [required : BOOLEAN, port_ok : BOOLEAN, LOW_LEADS_THRESHOLD : RunRawChoices]

\* What the query can return.
DbResults ==
    { <<>>,
      << [client_name |-> 1, sent |-> 1, leads |-> 1, replies |-> 0, positives |-> 0] >>,
      << [client_name |-> 1, sent |-> 1, leads |-> 2, replies |-> 1, positives |-> 1],
         [client_name |-> NoName, sent |-> 1, leads |-> 0, replies |-> 0, positives |-> 0] >>,
      << [client_name |-> 2, sent |-> 1, leads |-> 0, replies |-> 0, positives |-> 0],
         [client_name |-> NoName, sent |-> 1, leads |-> 0, replies |-> 0, positives |-> 0] >> }

Event(stage, outcome) == [stage |-> stage, outcome |-> outcome]

\* The required-settings check always passing.
RequiredPresentUnchecked(e) == TRUE

\* not (DSN and SMTP_HOST and ... and TO_LIST) / not (DSN and SLACK_TOKEN and
\* SLACK_CHANNEL) is false.
RequiredPresent(e) == e.required

\* The thresholds of a run whose LOW_LEADS_THRESHOLD parsed to v.
RunThresholds(v) ==
    [LOW_LEADS_THRESHOLD |-> v,
     LOW_REPLY_COUNT_THRESHOLD |-> DefaultLowReplyCount,
     LOW_REPLY_RATE_THRESHOLD |-> <<DefaultFraction.coef, Pow10(DefaultFraction.exp)>>]

InitRun ==
    /\ script \in {"email", "chat"}
    /\ env \in {e \in Envs : script = "chat" => e.port_ok}
    /\ pc = "import"
    /\ dbConn = "none"
    /\ starttlsSession = "none"
    /\ sslSession = "none"
    /\ events = <<>>
    /\ rows = <<>>
    /\ thresholds = NotCalled
    /\ emailOut = NotCalled
    /\ chatOut = NotCalled
    /\ ParsersIdle
    /\ DateIdle

Fail(stage, outcome) ==
    /\ pc' = "exit_error"
    /\ events' = Append(events, Event(stage, outcome))

\* email_send.py, module level: SMTP_PORT = int(...), the thresholds, then
\* the required-settings check.
EmailImport ==
    /\ script = "email" /\ pc = "import"
    /\ LET t == email_parse_int_env(env.LOW_LEADS_THRESHOLD, DefaultLowLeads)
       IN IF ~env.port_ok
          THEN Fail("config", "ValueError") /\ UNCHANGED thresholds
          ELSE IF t.outcome = "raised"
          THEN Fail("config", t.exc) /\ UNCHANGED thresholds
          ELSE IF ~RequiredPresent(env)
          THEN Fail("config", "SystemExit") /\ thresholds' = RunThresholds(t.value)
          ELSE /\ thresholds' = RunThresholds(t.value)
               /\ events' = Append(events, Event("config", "ok"))
               /\ pc' = "connect"
    /\ UNCHANGED <<rows, emailOut, chatOut, parserVars, dateVars, script, env, dbConn,
                   starttlsSession, sslSession>>

\* slack_post.py, module level: the required-settings check, then the
\* thresholds.
SlackImport ==
    /\ script = "chat" /\ pc = "import"
    /\ LET t == slack_parse_int_env(env.LOW_LEADS_THRESHOLD, DefaultLowLeads)
       IN IF ~RequiredPresent(env)
          THEN Fail("config", "SystemExit") /\ UNCHANGED thresholds
          ELSE IF t.outcome = "raised"
          THEN Fail("config", t.exc) /\ UNCHANGED thresholds
          ELSE /\ thresholds' = RunThresholds(t.value)
               /\ events' = Append(events, Event("config", "ok"))
               /\ pc' = "connect"
    /\ UNCHANGED <<rows, emailOut, chatOut, parserVars, dateVars, script, env, dbConn,
                   starttlsSession, sslSession>>

\* fetch_rows: with psycopg.connect(DSN) as conn
DbConnect ==
    /\ pc = "connect"
    /\ \E ok \in BOOLEAN :
          IF ok
          THEN /\ dbConn' = "open"
               /\ events' = Append(events, Event("connect", "ok"))
               /\ pc' = "query"
          ELSE Fail("connect", "OperationalError") /\ UNCHANGED dbConn
    /\ UNCHANGED <<presenterVars, parserVars, dateVars, script, env, starttlsSession, sslSession>>

\* fetch_rows: cur.execute(SQL); cur.fetchall(); leaving the with block
\* closes the connection, on an error too.
DbQuery ==
    /\ pc = "query"
    /\ dbConn' = "closed"
    /\ \/ \E result \in DbResults :
             /\ rows' = result
             /\ events' = Append(events, Event("query", "ok"))
             /\ pc' = "render"
       \/ Fail("query", "DatabaseError") /\ UNCHANGED rows
    /\ UNCHANGED <<thresholds, emailOut, chatOut, parserVars, dateVars, script, env,
                   starttlsSession, sslSession>>

\* main: html, subject = build_html(rows)
RenderEmail ==
    /\ script = "email" /\ pc = "render"
    /\ emailOut' = build_html(rows, thresholds)
    /\ events' = Append(events, Event("render", "ok"))
    /\ pc' = "starttls"
    /\ UNCHANGED <<rows, thresholds, chatOut, parserVars, dateVars, script, env, dbConn,
                   starttlsSession, sslSession>>

\* main: the sent > 0 guard and blocks = build_message(rows)
RenderChat ==
    /\ script = "chat" /\ pc = "render"
    /\ LET out == build_message(ActiveRows(rows), thresholds)
       IN /\ chatOut' = out
          /\ IF out.status = "returned"
             THEN /\ events' = Append(events, Event("render", "ok"))
                  /\ pc' = "post"
             ELSE Fail("render", out.status)
    /\ UNCHANGED <<rows, thresholds, emailOut, parserVars, dateVars, script, env, dbConn,
                   starttlsSession, sslSession>>

\* The step after the STARTTLS attempt, taken whatever its outcome.
AfterStartTlsAlwaysSend(outcome) == "send"

\* smtp_connect: return s after a successful login, otherwise the except
\* branch that tries SSL on 465.
AfterStartTls(outcome) == IF outcome = "ok" THEN "send" ELSE "ssl"

\* smtp_connect, first try: smtplib.SMTP(host, port), ehlo, starttls, ehlo,
\* login.  A failed connect leaves no socket; a failed starttls or login
\* leaves the connected session as it is.
StartTls ==
    /\ pc = "starttls"
    /\ \E outcome \in {"connect_failed", "starttls_failed", "login_failed", "ok"} :
          /\ starttlsSession' = IF outcome = "connect_failed" THEN "none" ELSE "open"
          /\ events' = Append(events, Event("starttls", outcome))
          /\ pc' = AfterStartTls(outcome)
    /\ UNCHANGED <<presenterVars, parserVars, dateVars, script, env, dbConn, sslSession>>

\* smtp_connect, except branch: smtplib.SMTP_SSL(host, 465), ehlo, login;
\* SystemExit when this fails too.
SslFallback ==
    /\ pc = "ssl"
    /\ \E outcome \in {"connect_failed", "login_failed", "ok"} :
          /\ sslSession' = IF outcome = "connect_failed" THEN "none" ELSE "open"
          /\ events' = Append(events, Event("ssl", outcome))
          /\ pc' = IF outcome = "ok" THEN "send" ELSE "exit_error"
    /\ UNCHANGED <<presenterVars, parserVars, dateVars, script, env, dbConn, starttlsSession>>

\* The session smtp_connect returned: the one whose login succeeded.
ReturnedSession ==
    IF \E i \in DOMAIN events : events[i] = Event("starttls", "ok")
    THEN "starttls" ELSE "ssl"

\* send_email: with smtp_connect() as s: s.send_message(...); leaving the
\* with block quits and closes s, on an error too.
SendMessage ==
    /\ pc = "send"
    /\ \E ok \in BOOLEAN :
          /\ events' = Append(events, Event("send", IF ok THEN "ok" ELSE "SMTPException"))
          /\ pc' = IF ok THEN "exit_ok" ELSE "exit_error"
    /\ IF ReturnedSession = "starttls"
       THEN starttlsSession' = "closed" /\ UNCHANGED sslSession
       ELSE sslSession' = "closed" /\ UNCHANGED starttlsSession
    /\ UNCHANGED <<presenterVars, parserVars, dateVars, script, env, dbConn>>

\* The answers of chat.postMessage: no answer (a transport exception), an
\* HTTP error status, HTTP 200 with ok=true, HTTP 200 with ok=false.
SlackAnswers == {"connection_error", "http_error", "ok_true", "ok_false"}

\* post_to_slack: requests.post(...), then resp.raise_for_status()
PostToSlack ==
    /\ pc = "post"
    /\ \E answer \in SlackAnswers :
          /\ events' = Append(events, Event("post", answer))
          /\ pc' = IF answer \in {"connection_error", "http_error"}
                   THEN "exit_error" ELSE "exit_ok"
    /\ UNCHANGED <<presenterVars, parserVars, dateVars, script, env, dbConn,
                   starttlsSession, sslSession>>

NextRun ==
    \/ EmailImport \/ SlackImport
    \/ DbConnect \/ DbQuery
    \/ RenderEmail \/ RenderChat
    \/ StartTls \/ SslFallback \/ SendMessage
    \/ PostToSlack

SpecRun == InitRun /\ [][NextRun]_vars

\* ------------------ the business date in the payloads -------------------
\* The rows of one query result: every row carries the ist_yday column, the
\* same date in all of them ((now() AT TIME ZONE 'Asia/Kolkata')::date - 1).
Dated(rs, d) == [i \in DOMAIN rs |-> rs[i] @@ [ist_yday |-> d]]

\* ist_date = rows[0]["ist_yday"]
ist_date(rs) == rs[1].ist_yday

\* A piece of text that may show a date.
Undated(text) == [text |-> text, has_date |-> FALSE, date |-> 0]
DatedText(text, d) == [text |-> text, has_date |-> TRUE, date |-> d]

\* The subject build_html returns: "Daily Campaign Alerts" for no rows,
\* f"Daily Campaign Alerts: {ist_date}" otherwise.
email_subject(rs) ==
    IF rs = <<>> THEN Undated("Daily Campaign Alerts")
    ELSE DatedText("Daily Campaign Alerts: ", ist_date(rs))

\* The "Date:" paragraph of the html: absent from the no-data document.
html_date(rs) ==
    IF rs = <<>> THEN Undated("No data for IST yesterday.")
    ELSE DatedText("Date: ", ist_date(rs))

\* The text of the header block of build_message: "Daily Campaign Alerts: no
\* data" for no rows, f"Daily Campaign Alerts: {ist_date}" otherwise.
chat_header(rs) ==
    IF rs = <<>> THEN Undated("Daily Campaign Alerts: no data")
    ELSE DatedText("Daily Campaign Alerts: ", ist_date(rs))

InitDate ==
    /\ ist_yday \in 1..MaxDate
    /\ rows \in {Dated(rs, ist_yday) : rs \in RowLists}
    /\ thresholds \in {t \in ThresholdChoices : t.LOW_LEADS_THRESHOLD = 1}
    /\ emailOut = NotCalled
    /\ chatOut = NotCalled
    /\ ParsersIdle
    /\ RunIdle

\* email_send.py main: html, subject = build_html(rows)
BuildHtmlDated ==
    /\ emailOut = NotCalled
    /\ emailOut' = build_html(rows, thresholds)
                   @@ [subject |-> email_subject(rows), html_date |-> html_date(rows)]
    /\ UNCHANGED <<rows, thresholds, chatOut, parserVars, dateVars, runVars>>

\* slack_post.py main: the sent > 0 guard, then blocks = build_message(rows);
\* no header exists when build_message raised.
BuildMessageDated ==
    /\ chatOut = NotCalled
    /\ LET active == ActiveRows(rows)
           out == build_message(active, thresholds)
       IN chatOut' = out @@ [header |-> IF out.status = "returned"
                                        THEN chat_header(active)
                                        ELSE Undated("TypeError")]
    /\ UNCHANGED <<rows, thresholds, emailOut, parserVars, dateVars, runVars>>

NextDate == BuildHtmlDated \/ BuildMessageDated

SpecDate == InitDate /\ [][NextDate]_vars

\* ============================ the claims ================================
\* The lists a payload shows: section k of a digest, empty otherwise.
ListOf(out, k) == IF out.kind = "digest" THEN out.sections[k].li ELSE <<>>

Count(list, name) == Cardinality({i \in DOMAIN list : list[i][1] = name})

DistinctNames(rs) ==
    \A i, j \in DOMAIN rs : i # j => rs[i].client_name # rs[j].client_name

DistinctNonEmpty(rs) ==
    DistinctNames(rs) /\ \A i \in DOMAIN rs : Truthy(rs[i].client_name)

RECURSIVE SigmaOver(_, _, _)
\* The sum of rs[i][field] over the indices i of the set idx.
SigmaOver(idx, rs, field) ==
    IF idx = {} THEN 0
    ELSE LET i == CHOOSE j \in idx : TRUE
         IN rs[i][field] + SigmaOver(idx \ {i}, rs, field)

Sigma(rs, field) == SigmaOver(DOMAIN rs, rs, field)

\* The predicates of the three alert categories, stated on a row.
IsLowLeads(r) == r.leads < thresholds.LOW_LEADS_THRESHOLD
IsLowReplyCount(r) == r.replies <= thresholds.LOW_REPLY_COUNT_THRESHOLD
IsLowReplyRate(r) ==
    IF r.leads = 0
    THEN 0 < thresholds.LOW_REPLY_RATE_THRESHOLD[1]
    ELSE r.replies * thresholds.LOW_REPLY_RATE_THRESHOLD[2]
            < thresholds.LOW_REPLY_RATE_THRESHOLD[1] * r.leads
IsZeroPositive(r) == r.positives = 0

\* list holds exactly one item for every row of rs for which member is TRUE,
\* showing that row's value, and nothing else.
ExactlyTheRows(list, rs, member, value) ==
    /\ \A i \in DOMAIN rs :
          Count(list, rs[i].client_name) = IF member[i] THEN 1 ELSE 0
    /\ \A k \in DOMAIN list :
          \E i \in DOMAIN rs : /\ member[i]
                               /\ list[k][1] = rs[i].client_name
                               /\ list[k][2] = value[i]

\* C1: for rows with distinct, non-empty client names, a client is in the
\* low-leads list iff leads < LOW_LEADS_THRESHOLD, in the low-engagement list
\* iff it fails the channel's reply threshold (email: replies <=
\* LOW_REPLY_COUNT_THRESHOLD; chat: replies/leads < LOW_REPLY_RATE_THRESHOLD,
\* the rate being 0 when leads = 0), and in the zero-positive list iff
\* positives = 0; each satisfying client appears exactly once.
C1_MembershipIsThePredicate ==
    /\ (emailOut # NotCalled /\ DistinctNonEmpty(rows)) =>
          /\ emailOut.status = "returned"
          /\ ExactlyTheRows(ListOf(emailOut, 1), rows,
                            [i \in DOMAIN rows |-> IsLowLeads(rows[i])],
                            [i \in DOMAIN rows |-> rows[i].leads])
          /\ ExactlyTheRows(ListOf(emailOut, 2), rows,
                            [i \in DOMAIN rows |-> IsLowReplyCount(rows[i])],
                            [i \in DOMAIN rows |-> rows[i].replies])
          /\ ExactlyTheRows(ListOf(emailOut, 3), rows,
                            [i \in DOMAIN rows |-> IsZeroPositive(rows[i])],
                            [i \in DOMAIN rows |-> rows[i].positives])
    /\ (chatOut # NotCalled /\ DistinctNonEmpty(ActiveRows(rows))) =>
          LET rs == ActiveRows(rows) IN
          /\ chatOut.status = "returned"
          /\ ExactlyTheRows(ListOf(chatOut, 1), rs,
                            [i \in DOMAIN rs |-> IsLowLeads(rs[i])],
                            [i \in DOMAIN rs |-> rs[i].leads])
          /\ ExactlyTheRows(ListOf(chatOut, 2), rs,
                            [i \in DOMAIN rs |-> IsLowReplyRate(rs[i])],
                            [i \in DOMAIN rs |-> rs[i].replies])
          /\ ExactlyTheRows(ListOf(chatOut, 3), rs,
                            [i \in DOMAIN rs |-> IsZeroPositive(rs[i])],
                            [i \in DOMAIN rs |-> rs[i].positives])

\* Both presenters ran on two distinctly named active rows, one of which is
\* listed for low leads and the other is not; the email low-replies list and
\* the chat low-rate list disagree on the second.
C1_Witness ==
    /\ emailOut # NotCalled /\ chatOut # NotCalled
    /\ Len(rows) = 2 /\ DistinctNonEmpty(rows) /\ ActiveRows(rows) = rows
    /\ Len(ListOf(emailOut, 1)) = 1 /\ Len(ListOf(chatOut, 1)) = 1
    /\ Len(ListOf(emailOut, 2)) = 1 /\ Len(ListOf(chatOut, 2)) = 2
    /\ Len(ListOf(emailOut, 3)) = 1 /\ Len(ListOf(chatOut, 3)) = 1

\* The items of a payload's lists that carry no client name.
Unnamed(out) ==
    {<<k, i>> \in (1..3) \X (1..MaxRows) :
        i \in DOMAIN ListOf(out, k) /\ ~Truthy(ListOf(out, k)[i][1])}

\* C2: a row whose client_name is empty or missing never appears in the
\* low-leads, low-engagement or zero-positive list of either presenter,
\* whatever its metrics, while its values are still included in the totals.
C2_UnnamedRowsAreNotListed ==
    /\ emailOut # NotCalled =>
          /\ Unnamed(emailOut) = {}
          /\ emailOut.kind = "digest" =>
                /\ emailOut.totals.sent = Sigma(rows, "sent")
                /\ emailOut.totals.leads = Sigma(rows, "leads")
                /\ emailOut.totals.replies = Sigma(rows, "replies")
                /\ emailOut.totals.positives = Sigma(rows, "positives")
    /\ chatOut # NotCalled =>
          /\ Unnamed(chatOut) = {}
          /\ chatOut.kind = "digest" =>
                /\ chatOut.totals.leads = Sigma(ActiveRows(rows), "leads")
                /\ chatOut.totals.replies = Sigma(ActiveRows(rows), "replies")
                /\ chatOut.totals.positives = Sigma(ActiveRows(rows), "positives")

\* rs with its rows rearranged by the permutation p of its indices.
Permuted(rs, p) == [i \in DOMAIN rs |-> rs[p[i]]]

\* list is in strictly ascending order of (metric, client name), the metric
\* being the second component of an item.
AscendingMetricName(list) ==
    \A k \in 1..(Len(list) - 1) :
        \/ list[k][2] < list[k + 1][2]
        \/ list[k][2] = list[k + 1][2] /\ list[k][1] < list[k + 1][1]

\* list is in strictly ascending order of (replies / leads, client name), the
\* rate of an item with no leads being 0.
AscendingRateName(list) ==
    \A k \in 1..(Len(list) - 1) :
        LET a == list[k]
            b == list[k + 1]
            ra == IF a[3] = 0 THEN <<0, 1>> ELSE <<a[2], a[3]>>
            rb == IF b[3] = 0 THEN <<0, 1>> ELSE <<b[2], b[3]>>
        IN \/ ra[1] * rb[2] < rb[1] * ra[2]
           \/ ra[1] * rb[2] = rb[1] * ra[2] /\ a[1] < b[1]

\* list is in strictly ascending order of the client name.
AscendingName(list) ==
    \A k \in 1..(Len(list) - 1) : list[k][1] < list[k + 1][1]

\* C3: for rows with distinct client names, each alert list of build_html and
\* build_message is ordered by (triggering metric ascending, client name
\* ascending), the zero-positive list by name, and the presenter's outcome is
\* the same for every permutation of the input rows.
C3_SortedAndOrderIndependent ==
    /\ (emailOut # NotCalled /\ DistinctNames(rows)) =>
          /\ AscendingMetricName(ListOf(emailOut, 1))
          /\ AscendingMetricName(ListOf(emailOut, 2))
          /\ AscendingName(ListOf(emailOut, 3))
          /\ \A p \in Permutations(DOMAIN rows) :
                build_html(Permuted(rows, p), thresholds) = emailOut
    /\ (chatOut # NotCalled /\ DistinctNames(ActiveRows(rows))) =>
          /\ AscendingMetricName(ListOf(chatOut, 1))
          /\ AscendingRateName(ListOf(chatOut, 2))
          /\ AscendingName(ListOf(chatOut, 3))
          /\ \A p \in Permutations(DOMAIN rows) :
                build_message(ActiveRows(Permuted(rows, p)), thresholds) = chatOut

\* Both presenters ran on two rows given in descending name order that tie on
\* every metric, and both rows are listed: the name alone orders them.
C3_Witness ==
    /\ emailOut # NotCalled /\ chatOut # NotCalled
    /\ Len(rows) = 2 /\ ActiveRows(rows) = rows
    /\ Truthy(rows[2].client_name)
    /\ rows[1].client_name > rows[2].client_name
    /\ rows[1].leads = rows[2].leads /\ rows[1].replies = rows[2].replies
    /\ Len(ListOf(emailOut, 1)) = 2 /\ Len(ListOf(emailOut, 2)) = 2
    /\ Len(ListOf(chatOut, 1)) = 2 /\ Len(ListOf(chatOut, 2)) = 2
    /\ ListOf(emailOut, 1)[1][1] = rows[2].client_name
    /\ ListOf(chatOut, 2)[1][1] = rows[2].client_name

\* r is the exact ratio num / den, or 0 when den = 0.
IsRatio(r, num, den) ==
    /\ r[2] # 0
    /\ IF den = 0 THEN r[1] = 0 ELSE r[1] * den = num * r[2]

C10_WitnessChatDigest ==
    /\ chatOut # NotCalled /\ chatOut.kind = "digest"
    /\ chatOut.sections[1].tag = "bullet_none"
    /\ chatOut.sections[3].tag = "bullets"

\* The raw string has a numeric portion: some digit occurs in it.
HasNumericPortion(str) == \E i \in DOMAIN str : isdigit(str[i])

NonNegativeInt(res) == res.outcome = "returned" /\ res.value >= 0

NonNegativeDecimal(res) ==
    /\ res.outcome = "returned"
    /\ res.value.kind \in {"finite", "inf"}
    /\ ~res.value.neg \/ (res.value.kind = "finite" /\ res.value.coef = 0)

\* C8: for every raw environment string the three threshold parsers never
\* raise, yield the default when the string has no parseable numeric portion,
\* and always yield a non-negative number.
C8_ParsingIsTotalAndNonNegative ==
    /\ intEmail # NotCalled =>
          /\ NonNegativeInt(intEmail)
          /\ ~HasNumericPortion(raw) => intEmail.value = DefaultLowLeads
    /\ intSlack # NotCalled =>
          /\ NonNegativeInt(intSlack)
          /\ ~HasNumericPortion(raw) => intSlack.value = DefaultLowLeads
    /\ fracSlack # NotCalled =>
          /\ NonNegativeDecimal(fracSlack)
          /\ ~HasNumericPortion(raw) => fracSlack.value = DefaultFraction

\* ----------------------- claims about a run ------------------------------
Finished == pc \in {"exit_ok", "exit_error"}

EventsOf(stage) == {i \in DOMAIN events : events[i].stage = stage}

Happened(stage, outcome) == \E i \in DOMAIN events : events[i] = Event(stage, outcome)

\* C4: the chat publisher performs exactly one POST per run, and whenever the
\* chat API's answer is a non-success (an HTTP error status, or an API-level
\* failure such as ok=false on HTTP 200) the run ends with a fatal error; a
\* run never finishes as successful after a non-success answer.
C4_NonSuccessAnswerIsFatal ==
    script = "chat" =>
        /\ Cardinality(EventsOf("post")) <= 1
        /\ pc = "exit_ok" => Cardinality(EventsOf("post")) = 1
        /\ \A i \in EventsOf("post") :
              events[i].outcome # "ok_true" => pc = "exit_error"

\* C5: on every exit path every database connection and every SMTP session
\* that was opened has been closed when the run ends, and the session of the
\* STARTTLS attempt is closed once the SSL fallback has been tried.
C5_EverythingOpenedIsClosed ==
    /\ Finished => /\ dbConn # "open"
                   /\ starttlsSession # "open"
                   /\ sslSession # "open"
    /\ EventsOf("ssl") # {} => starttlsSession # "open"

\* C6: the STARTTLS session is attempted first; the SSL session on 465 is
\* attempted only after the STARTTLS attempt failed and at most once; when
\* both fail the run ends with a fatal error and nothing is sent; a run makes
\* at most two connection attempts and at most one send_message call, and
\* the send happens only after a successful login.
C6_OneFallbackNoRetry ==
    script = "email" =>
        /\ Cardinality(EventsOf("starttls")) <= 1
        /\ Cardinality(EventsOf("ssl")) <= 1
        /\ Cardinality(EventsOf("send")) <= 1
        /\ \A j \in EventsOf("ssl") :
              \E i \in EventsOf("starttls") : i < j /\ events[i].outcome # "ok"
        /\ \A j \in EventsOf("send") :
              \E i \in EventsOf("starttls") \cup EventsOf("ssl") :
                  i < j /\ events[i].outcome = "ok"
        /\ (\E i \in EventsOf("starttls") : events[i].outcome # "ok")
           /\ (\E j \in EventsOf("ssl") : events[j].outcome # "ok")
              => pc = "exit_error" /\ EventsOf("send") = {}
        /\ pc \in {"ssl", "send"} => EventsOf("starttls") # {}

\* The STARTTLS login failed, the SSL fallback logged in, and the message
\* was sent.
C6_Witness ==
    /\ script = "email" /\ pc = "exit_ok"
    /\ Happened("starttls", "login_failed")
    /\ Happened("ssl", "ok")
    /\ Happened("send", "ok")

\* The stages in their order.
StageRank(stage) ==
    CASE stage = "config" -> 1
      [] stage = "connect" -> 2
      [] stage = "query" -> 2
      [] stage = "render" -> 3
      [] stage \in {"starttls", "ssl", "send", "post"} -> 4

IsFailure(e) ==
    /\ e.stage \in {"config", "connect", "query", "render"}
    /\ e.outcome # "ok"

\* C7: in a run of either script the stages occur in the order validate
\* configuration, fetch rows, render, publish; a failure stops the run with a
\* non-zero exit before any later stage: with a required setting missing no
\* database connection and no publish attempt is made, and after a failed
\* query or database connection nothing is sent or posted.
C7_StagesInOrderFailuresStop ==
    /\ \A i, j \in DOMAIN events :
          i < j => StageRank(events[i].stage) <= StageRank(events[j].stage)
    /\ \A j \in DOMAIN events :
          StageRank(events[j].stage) > 1 =>
              \E i \in 1..(j - 1) :
                  /\ StageRank(events[i].stage) = StageRank(events[j].stage) - 1
                  /\ events[i].outcome = "ok"
    /\ \A i \in DOMAIN events :
          IsFailure(events[i]) => i = Len(events) /\ pc = "exit_error"
    /\ events # <<>> => events[1].stage = "config"
    /\ ~env.required =>
          \A i \in DOMAIN events : events[i].stage = "config"
    /\ ~env.required => dbConn = "none" /\ pc \in {"import", "exit_error"}
    /\ (Happened("connect", "OperationalError") \/ Happened("query", "DatabaseError"))
          => /\ EventsOf("send") = {} /\ EventsOf("post") = {}
             /\ EventsOf("starttls") = {} /\ EventsOf("ssl") = {}
             /\ emailOut = NotCalled /\ chatOut = NotCalled

\* A run with a required setting missing has stopped at the configuration
\* check.
C7_Witness ==
    /\ ~env.required /\ pc = "exit_error"
    /\ events = << Event("config", "SystemExit") >>

\* A run whose query failed after the connection was made has stopped.
C7_WitnessQueryFailed ==
    /\ pc = "exit_error" /\ Happened("query", "DatabaseError") /\ dbConn = "closed"

\* A run went through all four stages and ended successfully.
C7_WitnessPublished ==
    /\ pc = "exit_ok" /\ Len(events) >= 5

\* C11: for every row set handed to a presenter, the empty one included, the
\* email subject and the text of the chat header block include the business
\* date of the run, and that date is the same in the whole payload whichever
\* row comes first.
C11_PayloadCarriesBusinessDate ==
    /\ emailOut # NotCalled =>
          /\ emailOut.subject.has_date
          /\ emailOut.subject.date = ist_yday
          /\ emailOut.html_date.has_date =>
                emailOut.html_date.date = emailOut.subject.date
          /\ \A p \in Permutations(DOMAIN rows) :
                email_subject(Permuted(rows, p)) = emailOut.subject
    /\ (chatOut # NotCalled /\ chatOut.status = "returned") =>
          /\ chatOut.header.has_date
          /\ chatOut.header.date = ist_yday
          /\ \A p \in Permutations(DOMAIN rows) :
                chat_header(ActiveRows(Permuted(rows, p))) = chatOut.header

\* C11 for the row sets that are not empty: the subject and the header show
\* the business date of the run, the same as the html shows.
C11_DatedWhenRowsExist ==
    /\ (emailOut # NotCalled /\ rows # <<>>) =>
          /\ emailOut.subject = DatedText("Daily Campaign Alerts: ", ist_yday)
          /\ emailOut.html_date.date = ist_yday
    /\ (chatOut # NotCalled /\ chatOut.status = "returned"
        /\ ActiveRows(rows) # <<>>) =>
          chatOut.header = DatedText("Daily Campaign Alerts: ", ist_yday)

====
